---- MODULE Spec2Model ----
(***************************************************************************)
(* Model of scripts/build_heygen_knowledge_env.py: the knowledge-file      *)
(* builder that reads sources.yaml, fetches every web URL (managed scrape, *)
(* crawl, direct GET) and every actor, chunks the normalized text into     *)
(* 800-character lines, aggregates them and writes the output file.        *)
(*                                                                         *)
(* A Python str is a sequence of one-character strings.  An optional value *)
(* (str | None) is a record [some, s].  A JSON value is a record tagged by *)
(* t; a JSON object is the sequence of its [k, v] members in document      *)
(* order (dict order is insertion order in Python).                        *)
(*                                                                         *)
(* Every request is one step whose reply is chosen from a finite set of    *)
(* replies (network error, non-2xx, 2xx with each shape of body the code   *)
(* distinguishes).  Left out: the waits between retries (wait_exponential),*)
(* the log and warning output, and resolve_env_placeholders, whose result  *)
(* is only the body of the actor request.                                  *)
(***************************************************************************)
EXTENDS Integers, Sequences, FiniteSets, TLC

\* ---------------------------------------------------------------- bounds
MaxWeb == 2
MaxActors == 1
MaxItems == 3

\* ------------------------------------------------------ program constants
CHUNK == 800
RETRY_ATTEMPTS == 3
MIN_FALLBACK_LEN == 20

\* ------------------------------------------------------------ basic text
Min(a, b) == IF a < b THEN a ELSE b

\* the characters str.split() and str.strip() (no argument) take for
\* whitespace, those of str.isspace(): U+0009 tab, U+000A line feed, U+000B
\* vertical tab, U+000C form feed, U+000D carriage return, U+001C..U+001F
\* the four separators, U+0020 space, U+0085 next line, U+00A0 no-break
\* space, U+1680 ogham space mark.  Python counts U+2000..U+200A, U+2028,
\* U+2029, U+202F, U+205F and U+3000 as well; a string of this language
\* cannot hold them, so no text here does
WHITESPACE ==
  {"\t", "\n", "", "\f", "\r",
   "", "", "", "",
   " ", "", " ", " "}

IsSpace(c) == c \in WHITESPACE

\* unit repeated cyclically up to length L (builds the long input texts)
Rep(unit, L) == [i \in 1..L |-> unit[((i - 1) % Len(unit)) + 1]]

NoneT == [some |-> FALSE, s |-> <<>>]
Some(s) == [some |-> TRUE, s |-> s]
\* Python truthiness of a str | None
Truthy(o) == o.some /\ Len(o.s) > 0

\* str.strip(): drop leading and trailing whitespace
Strip(s) ==
  IF \A n \in 1..Len(s) : IsSpace(s[n]) THEN <<>>
  ELSE LET lo == IF ~IsSpace(s[1]) THEN 1
                 ELSE CHOOSE n \in 1..Len(s) :
                        ~IsSpace(s[n]) /\ \A m \in 1..(n - 1) : IsSpace(s[m])
           hi == IF ~IsSpace(s[Len(s)]) THEN Len(s)
                 ELSE CHOOSE n \in 1..Len(s) :
                        ~IsSpace(s[n]) /\ \A m \in (n + 1)..Len(s) : IsSpace(s[m])
       IN SubSeq(s, lo, hi)

\* a variant that drops every second character of each whitespace run in a
\* single left-to-right pass: runs are halved, not collapsed
clean_text_OnePass(text) ==
  LET RunStart(i) == CHOOSE j \in 1..i :
                       /\ \A m \in j..i : IsSpace(text[m])
                       /\ (j = 1 \/ ~IsSpace(text[j - 1]))
      keep == SelectSeq([i \in 1..Len(text) |-> <<i, text[i]>>],
                 LAMBDA p : \/ ~IsSpace(p[2])
                            \/ (p[1] - RunStart(p[1])) % 2 = 0)
  IN Strip([i \in 1..Len(keep) |->
              IF IsSpace(keep[i][2]) THEN " " ELSE keep[i][2]])

\* clean_text: " ".join(text.split()).strip().  split() cuts the text at
\* its whitespace runs and drops the empty ends, join() puts one " " between
\* the words: what is kept is every non-whitespace character and, for each
\* whitespace run between two words, one " " (idx holds the positions of the
\* characters kept, a run being kept at its first character)
clean_text(text) ==
  LET idx == SelectSeq([n \in 1..Len(text) |-> n],
               LAMBDA n : ~IsSpace(text[n]) \/ (n > 1 /\ ~IsSpace(text[n - 1])))
      c == [k \in 1..Len(idx) |-> IF IsSpace(text[idx[k]]) THEN " " ELSE text[idx[k]]]
  IN IF Len(c) > 0 /\ c[Len(c)] = " " THEN SubSeq(c, 1, Len(c) - 1) ELSE c

\* " ".join(parts)
RECURSIVE JoinWith(_, _)
JoinWith(sep, parts) ==
  IF Len(parts) = 0 THEN <<>>
  ELSE IF Len(parts) = 1 THEN parts[1]
  ELSE parts[1] \o sep \o JoinWith(sep, Tail(parts))

\* a slice one character too long: text[i:i+801]
Chunks_LongSlice(text) ==
  [k \in 1..((Len(text) + CHUNK - 1) \div CHUNK) |->
     SubSeq(text, (k - 1) * CHUNK + 1, Min(k * CHUNK + 1, Len(text)))]

\* the windows text[i:i+800] for i in range(0, len(text), 800)
Chunks(text) ==
  [k \in 1..((Len(text) + CHUNK - 1) \div CHUNK) |->
     SubSeq(text, (k - 1) * CHUNK + 1, Min(k * CHUNK, Len(text)))]

\* dedupe_keep_order: the loop over items with the seen set and out list
RECURSIVE DedupeLoop(_, _, _, _)
DedupeLoop(items, i, seen, out) ==
  IF i > Len(items) THEN out
  ELSE IF items[i] \notin seen
       THEN DedupeLoop(items, i + 1, seen \cup {items[i]}, Append(out, items[i]))
       ELSE DedupeLoop(items, i + 1, seen, out)

\* a variant that keeps the last occurrence of each item instead of the first
dedupe_keep_last(items) ==
  LET kept == SelectSeq([n \in 1..Len(items) |-> <<n, items[n]>>],
                 LAMBDA p : \A m \in (p[1] + 1)..Len(items) : items[m] # p[2])
  IN [n \in 1..Len(kept) |-> kept[n][2]]


dedupe_keep_order(items) == DedupeLoop(items, 1, {}, <<>>)

\* main, lines 249-250: [clean_text(x) for x in all_lines if x and x.strip()]
\* followed by dedupe_keep_order
NormalizeLines(ls) ==
  LET kept == SelectSeq(ls, LAMBDA x : Len(x) > 0 /\ Len(Strip(x)) > 0)
  IN [i \in 1..Len(kept) |-> clean_text(kept[i])]

Aggregate(ls) == dedupe_keep_order(NormalizeLines(ls))


\* ------------------------------------------------------------ JSON values
\* [t |-> "bad"] stands for a body that r.json() / json.loads() rejects
JBad == [t |-> "bad"]
JNone == [t |-> "none"]
JNum == [t |-> "num"]
JStr(s) == [t |-> "str", s |-> s]
JList(l) == [t |-> "list", l |-> l]
JDict(d) == [t |-> "dict", d |-> d]
KV(k, v) == [k |-> k, v |-> v]

\* dict.get(k): the member's value, or None
GetKey(j, k) ==
  LET hits == {n \in 1..Len(j.d) : j.d[n].k = k} IN
  IF hits = {} THEN JNone
  ELSE j.d[CHOOSE n \in hits : \A m \in hits : m <= n].v

\* Python truthiness of a JSON value (numbers in the inputs are non-zero)
JTruthy(v) ==
  CASE v.t = "none" -> FALSE
    [] v.t = "str" -> Len(v.s) > 0
    [] v.t = "list" -> Len(v.l) > 0
    [] v.t = "dict" -> Len(v.d) > 0
    [] OTHER -> TRUE

\* Python's  a or b
PyOr(a, b) == IF JTruthy(a) THEN a ELSE b

IsStr(v) == v.t = "str"

\* r.raise_for_status() passes
HttpOk(status) == status \in 200..299

\* ------------------------------------------------------------------ HTML
\* an HTML document is the sequence of its nodes [tag, text]; tag "text"
\* is a bare text node
StrippedTags == {"script", "style", "noscript"}

extract_text_from_html(html) ==
  LET kept == SelectSeq(html, LAMBDA n : n.tag \notin StrippedTags)
  IN clean_text(JoinWith(<<" ">>, [k \in 1..Len(kept) |-> kept[k].text]))

\* -------------------------------------------------------- line formatting
WEB_PREFIX == <<"S", "R", "C", ":", "W", "E", "B", " ">>
APIFY_PREFIX == <<"S", "R", "C", ":", "A", "P", "I", "F", "Y", " ">>
BAR == <<" ", "|", " ">>

\* f"SRC:WEB {url} | {chunk}"
WebLine(url, chunk) == WEB_PREFIX \o url \o BAR \o chunk
\* f"SRC:APIFY {src} | {chunk}"
ApifyLine(src, chunk) == APIFY_PREFIX \o src \o BAR \o chunk

\* build_lines_from_web, lines 156-160: the lines one URL's text produces
WebLines(url, text) ==
  IF Truthy(text)
  THEN LET t == clean_text(text.s)
           cs == Chunks(t)
       IN [k \in 1..Len(cs) |-> WebLine(url, cs[k])]
  ELSE <<>>

\* ------------------------------------------------- managed scrape service
\* a test of the base URL, which always has a value, instead of the key
firecrawl_enabled_Base(key) == key \/ TRUE

firecrawl_enabled(key) == key

\* firecrawl_scrape, lines 106-116: the value the scrape block returns, or
\* NoneT when it falls through (every exception is caught and logged)
ScrapeBlock(resp) ==
  IF resp.kind = "error" THEN NoneT
  ELSE IF resp.status # 200 THEN NoneT
  ELSE IF resp.json.t = "bad" THEN NoneT
  ELSE LET data == resp.json
           text == IF data.t = "dict"
                   THEN PyOr(PyOr(GetKey(data, "text"), GetKey(data, "markdown")),
                             GetKey(data, "content"))
                   ELSE JNone
       IN IF IsStr(text) /\ Len(Strip(text.s)) > 0 THEN Some(text.s) ELSE NoneT

CrawlKeys == <<"text", "markdown", "content", "rawText">>

\* lines 126-129: the parts collected from items[n..]; raised when an item
\* has no .get (it is not a mapping)
RECURSIVE CrawlParts(_, _)
CrawlParts(items, n) ==
  IF n > Len(items) THEN [raised |-> FALSE, parts |-> <<>>]
  ELSE IF items[n].t # "dict" THEN [raised |-> TRUE, parts |-> <<>>]
  ELSE LET it == items[n]
           hit == SelectSeq(CrawlKeys, LAMBDA k : IsStr(GetKey(it, k)))
           here == [m \in 1..Len(hit) |-> GetKey(it, hit[m]).s]
           rest == CrawlParts(items, n + 1)
       IN [raised |-> rest.raised, parts |-> here \o rest.parts]

\* firecrawl_scrape, lines 118-137: the value returned after the crawl block
CrawlBlock(resp) ==
  IF resp.kind = "error" THEN NoneT
  ELSE IF resp.status # 200 THEN NoneT
  ELSE IF resp.json.t = "bad" THEN NoneT
  ELSE LET data == resp.json IN
    IF data.t = "dict"
    THEN LET items == PyOr(PyOr(GetKey(data, "items"), GetKey(data, "pages")),
                           JList(<<>>))
         IN IF items.t = "list" /\ Len(items.l) > 0
            THEN LET r == CrawlParts(items.l, 1) IN
                 IF r.raised THEN NoneT
                 ELSE IF Len(r.parts) > 0
                      THEN Some(JoinWith(<<"\n", "\n">>, r.parts))
                      ELSE NoneT
            ELSE NoneT
    ELSE IF Len(Strip(resp.text)) > 0 THEN Some(resp.text) ELSE NoneT

\* --------------------------------------------------------- actor platform
\* a test of the base URL, which always has a value, instead of the token
apify_enabled_Base(token) == token \/ TRUE

apify_enabled(token) == token

\* apify_run_sync, lines 180-196: the records of a 2xx response
apify_items(resp) ==
  IF resp.json.t = "list" THEN resp.json.l
  ELSE LET ls == SelectSeq(resp.lines, LAMBDA l : Len(Strip(l.raw)) > 0)
           ok == SelectSeq(ls, LAMBDA l : l.json.t # "bad")
       IN [n \in 1..Len(ok) |-> ok[n].json]

TextKeys == <<"caption", "text", "summary", "title", "description", "alt", "content">>

extract_apify_text_fields(item) ==
  LET hit == SelectSeq(TextKeys, LAMBDA k :
                 IsStr(GetKey(item, k)) /\ Len(Strip(GetKey(item, k).s)) > 0)
      first == [m \in 1..Len(hit) |-> Strip(GetKey(item, hit[m]).s)]
      long == SelectSeq(item.d, LAMBDA kv : IsStr(kv.v) /\ Len(kv.v.s) > MIN_FALLBACK_LEN)
      second == [m \in 1..Len(long) |-> long[m].v.s]
      candidates == IF Len(first) > 0 THEN first ELSE second
  IN IF Len(candidates) > 0 THEN clean_text(JoinWith(<<" ">>, candidates)) ELSE <<>>

\* build_lines_from_apify, lines 224-229: the lines of one record
ItemLines(actor, it) ==
  LET txt == extract_apify_text_fields(it)
      s == PyOr(PyOr(PyOr(GetKey(it, "url"), GetKey(it, "link")),
                     GetKey(it, "permalink")), JStr(actor))
      cs == Chunks(txt)
  IN [k \in 1..Len(cs) |-> ApifyLine(s.s, cs[k])]

\* build_lines_from_apify, lines 223-231: the loop over items[n..]; a record
\* that is no mapping raises inside the try, which ends the loop
RECURSIVE ActorLines(_, _, _)
ActorLines(actor, items, n) ==
  IF n > Len(items) THEN [raised |-> FALSE, lines |-> <<>>]
  ELSE IF items[n].t # "dict" THEN [raised |-> TRUE, lines |-> <<>>]
  ELSE LET rest == ActorLines(actor, items, n + 1)
       IN [raised |-> rest.raised, lines |-> ItemLines(actor, items[n]) \o rest.lines]

\* ------------------------------------------------------------ source file
\* read_sources: ok = FALSE when an exception leaves the function
read_sources(doc) ==
  CASE doc.kind = "absent" -> [ok |-> TRUE, web |-> <<>>, apify |-> <<>>]
    [] doc.kind = "unparseable" -> [ok |-> FALSE, web |-> <<>>, apify |-> <<>>]
    [] doc.kind = "nonmap" -> [ok |-> FALSE, web |-> <<>>, apify |-> <<>>]
    [] doc.kind = "empty" -> [ok |-> TRUE, web |-> <<>>, apify |-> <<>>]
    [] OTHER -> [ok |-> TRUE, web |-> doc.web, apify |-> doc.apify]

\* ------------------------------------------------------------------ inputs
U1 == <<"u">>
U2 == <<"v">>
ACTOR == <<"x", "/", "y">>

\* the i-th URL of the longest config; the configs are its prefixes
UrlAt(n) == IF n % 2 = 1 THEN U1 ELSE U2
\* an actor descriptor; actor = <<>> is a descriptor without an actor name
ActorAt(n) == IF n % 2 = 1 THEN [actor |-> ACTOR] ELSE [actor |-> <<>>]

ConfigDocs ==
  {[kind |-> k, web |-> <<>>, apify |-> <<>>] :
     k \in {"absent", "unparseable", "nonmap", "empty"}}
  \cup {[kind |-> "map", web |-> [n \in 1..w |-> UrlAt(n)],
         apify |-> [n \in 1..a |-> ActorAt(n)]] :
          w \in 0..MaxWeb, a \in 0..MaxActors}

T_HI == <<"H", "i", " ", " ", "t", "h", "e", "r", "e">>
\* whitespace only: tab, line feed, carriage return, form feed, space,
\* no-break space
T_WS == <<"\t", "\n", "\r", "\f", " ", " ">>
\* 1600 times "a", then tab, carriage return, "b": normalizes to 1602
\* characters; the first two windows are equal and the third starts with a
\* space
T_LONG == Rep(<<"a">>, 2 * CHUNK) \o <<"\t", "\r", "b">>

Resp(status, json) == [kind |-> "http", status |-> status, json |-> json]
NetError == [kind |-> "error"]

ScrapeResps ==
  {NetError, Resp(503, JBad), Resp(200, JBad), Resp(200, JList(<<JNum>>)),
   Resp(200, JDict(<<KV("content", JNum)>>)),
   Resp(200, JDict(<<KV("text", JStr(<<>>)), KV("markdown", JStr(T_HI))>>))}
  \cup {Resp(200, JDict(<<KV("text", JStr(t))>>)) : t \in {T_WS, T_LONG}}

CResp(status, json, text) ==
  [kind |-> "http", status |-> status, json |-> json, text |-> text]

CrawlResps ==
  {NetError, CResp(503, JBad, <<>>), CResp(200, JBad, T_HI),
   CResp(200, JList(<<JStr(T_HI)>>), <<"[", "\"">> \o T_HI \o <<"\"", "]">>),
   CResp(200, JDict(<<KV("items", JList(<<JStr(T_HI)>>))>>), <<>>),
   CResp(200, JDict(<<KV("pages", JList(<<JDict(<<KV("text", JStr(<<>>))>>)>>))>>), <<>>),
   CResp(200, JDict(<<KV("items", JList(<<JDict(<<KV("text", JStr(T_WS))>>)>>))>>), <<>>),
   CResp(200, JDict(<<KV("items", JList(<<JDict(<<KV("text", JStr(<<"H", "i">>)),
                                                   KV("id", JNum)>>),
                                           JDict(<<KV("rawText", JStr(<<"t", "h", "e", "r", "e">>))>>)>>))>>),
         <<>>)}

Node(tag, text) == [tag |-> tag, text |-> text]
Page(t) == <<Node("script", <<"x">>), Node("text", t), Node("style", <<"y">>)>>

GResp(status, html) == [kind |-> "http", status |-> status, html |-> html]

GetResps ==
  {NetError, GResp(503, <<>>)}
  \cup {GResp(200, Page(t)) :
          t \in {<<>>, T_HI, T_LONG}}

T_NOTE == Rep(<<"n", "o", "t", "e", " ">>, MIN_FALLBACK_LEN + 2)
REC_HI == JDict(<<KV("text", JStr(T_HI)), KV("url", JStr(<<"s">>))>>)
REC_ONE == JDict(<<KV("title", JStr(<<"\t", "o", "n", "e">>)), KV("alt", JStr(<<"1">>))>>)
REC_TWO == JDict(<<KV("text", JStr(<<"t", "w", "o">>)), KV("link", JStr(<<"l">>))>>)
REC_NOTE == JDict(<<KV("id", JNum), KV("note", JStr(T_NOTE)), KV("tag", JStr(<<"t">>))>>)
REC_MUTE == JDict(<<KV("id", JNum)>>)

NdLine(raw, json) == [raw |-> raw, json |-> json]
AResp(status, json, lines) ==
  [kind |-> "http", status |-> status, json |-> json, lines |-> lines]

ActorResps ==
  {NetError, AResp(503, JBad, <<>>),
   AResp(200, JList(<<REC_HI>>), <<>>),
   AResp(200, JList(<<REC_ONE, JStr(<<"o">>), REC_TWO>>), <<>>),
   AResp(200, JList(<<REC_NOTE, REC_MUTE>>), <<>>),
   AResp(200, REC_TWO, <<NdLine(<<"{">>, REC_TWO)>>),
   AResp(200, JBad, <<NdLine(<<"{">>, REC_ONE), NdLine(<<"{">>, JBad),
                      NdLine(<<" ", "\t">>, JBad), NdLine(<<"{">>, REC_TWO)>>),
   AResp(200, JBad, <<NdLine(<<"{">>, REC_ONE), NdLine(<<"5">>, JNum),
                      NdLine(<<"{">>, REC_TWO)>>)}

\* the lists of lines the aggregator is run on by itself
AggLines ==
  {<<>>, <<"\t", " ">>, <<"a">>, <<"\r", "a", "\n">>,
   <<"a", " ", "\t", " ", "b">>, <<"a", " ", "b">>}

RECURSIVE SeqsUpTo(_, _)
SeqsUpTo(S, n) ==
  IF n = 0 THEN {<<>>}
  ELSE LET shorter == SeqsUpTo(S, n - 1)
       IN shorter \cup {Append(q, e) : q \in {r \in shorter : Len(r) = n - 1}, e \in S}

AggInputs == SeqsUpTo(AggLines, MaxItems)

\* ------------------------------------------------------------------- state
VARIABLES
  cfgDoc,      \* sources.yaml as found on disk
  fcKey,       \* FIRECRAWL_API_KEY is set
  apToken,     \* APIFY_TOKEN is set
  pc,          \* position of main()
  web_urls,    \* cfg["web"]
  apify_cfg,   \* cfg["apify"]
  i,           \* index of the source the current loop is at
  tries,       \* attempts tenacity has made of the current call
  all_lines,   \* the lines collected so far
  outFile,     \* dist/heygen_knowledge.txt
  rc,          \* the exit status: -1 while running
  cur,         \* history: the requests sent for the current source
  outcomes,    \* history: how each source ended: "ok", "empty", "failed"
  texts,       \* history: the normalized text of each web URL, if any
  produced     \* history: the lines as fetched, before aggregation

vars == <<cfgDoc, fcKey, apToken, pc, web_urls, apify_cfg, i, tries,
          all_lines, outFile, rc, cur, outcomes, texts, produced>>

env == <<cfgDoc, fcKey, apToken>>

\* counts: requests sent per endpoint; St: "fail" after a network error or a
\* non-2xx reply, "ok" after a 2xx reply; Y: the strategy returned a
\* non-empty string
NoCalls ==
  [kind |-> "none", scrape |-> 0, crawl |-> 0, get |-> 0, actor |-> 0,
   scrapeSt |-> "none", crawlSt |-> "none", getSt |-> "none", actorSt |-> "none",
   scrapeY |-> FALSE, crawlY |-> FALSE,
   done |-> FALSE, from |-> 0, n |-> 0, text |-> NoneT, html |-> <<>>,
   items |-> <<>>]

St(resp) == IF resp.kind = "http" /\ HttpOk(resp.status) THEN "ok" ELSE "fail"

Init ==
  /\ cfgDoc \in ConfigDocs
  /\ fcKey \in BOOLEAN
  /\ apToken \in BOOLEAN
  /\ pc = "start"
  /\ web_urls = <<>>
  /\ apify_cfg = <<>>
  /\ i = 0
  /\ tries = 0
  /\ all_lines = <<>>
  /\ outFile = [written |-> FALSE, lines |-> <<>>]
  /\ rc = -1
  /\ cur = NoCalls
  /\ outcomes = <<>>
  /\ texts = <<>>
  /\ produced = <<>>

\* an exception nobody catches leaves main(): the interpreter exits non-zero
Crash ==
  /\ pc' = "crashed"
  /\ rc' = 1
  /\ UNCHANGED <<env, web_urls, apify_cfg, i, tries, all_lines, outFile, cur,
                 outcomes, texts, produced>>

\* main, lines 236-241
ReadSources ==
  /\ pc = "start"
  /\ LET cfg == read_sources(cfgDoc) IN
     IF cfg.ok
     THEN /\ web_urls' = cfg.web
          /\ apify_cfg' = cfg.apify
          /\ pc' = "web_loop"
          /\ i' = 1
          /\ UNCHANGED <<env, tries, all_lines, outFile, rc, cur, outcomes,
                         texts, produced>>
     ELSE Crash

\* the URL's lines are appended and the loop moves on (lines 156-160)
UrlDone(text, calls, how) ==
  LET new == WebLines(web_urls[i], text) IN
  /\ all_lines' = all_lines \o new
  /\ cur' = [calls EXCEPT !.done = TRUE, !.from = Len(all_lines) + 1,
                          !.n = Len(new), !.text = text]
  /\ outcomes' = Append(outcomes, IF how = "failed" THEN "failed"
                                  ELSE IF Len(new) > 0 THEN "ok" ELSE "empty")
  /\ texts' = Append(texts, IF Truthy(text) THEN Some(clean_text(text.s)) ELSE NoneT)
  /\ i' = i + 1
  /\ pc' = "web_loop"
  /\ UNCHANGED <<env, web_urls, apify_cfg, tries, outFile, rc, produced>>

\* build_lines_from_web, lines 142-145 and firecrawl_scrape, lines 102-103:
\* the next URL; without the key firecrawl_scrape returns None at once
WebNext ==
  /\ pc = "web_loop"
  /\ i <= Len(web_urls)
  /\ cur' = [NoCalls EXCEPT !.kind = "web"]
  /\ tries' = 0
  /\ pc' = IF firecrawl_enabled(fcKey) THEN "scrape" ELSE "get"
  /\ UNCHANGED <<env, web_urls, apify_cfg, i, all_lines, outFile, rc, outcomes,
                 texts, produced>>

\* firecrawl_scrape, lines 106-116: POST /v1/scrape.  The try block catches
\* every exception, so nothing reaches @retry and the POST is sent once
ScrapePost ==
  /\ pc = "scrape"
  /\ \E resp \in ScrapeResps :
       LET r == ScrapeBlock(resp)
           calls == [cur EXCEPT !.scrape = @ + 1, !.scrapeSt = St(resp),
                                !.scrapeY = Truthy(r)]
       IN IF r.some
          THEN UrlDone(r, calls, "returned")
          ELSE /\ pc' = "crawl"
               /\ cur' = calls
               /\ UNCHANGED <<env, web_urls, apify_cfg, i, tries, all_lines,
                              outFile, rc, outcomes, texts, produced>>

\* firecrawl_scrape, lines 118-137: POST /v1/crawl, sent once as well;
\* build_lines_from_web, line 148: a falsy result sends the URL to simple_fetch
CrawlPost ==
  /\ pc = "crawl"
  /\ \E resp \in CrawlResps :
       LET r == CrawlBlock(resp)
           calls == [cur EXCEPT !.crawl = @ + 1, !.crawlSt = St(resp),
                                !.crawlY = Truthy(r)]
       IN IF Truthy(r)
          THEN UrlDone(r, calls, "returned")
          ELSE /\ pc' = "get"
               /\ tries' = 0
               /\ cur' = calls
               /\ UNCHANGED <<env, web_urls, apify_cfg, i, all_lines,
                              outFile, rc, outcomes, texts, produced>>

\* an except clause that is missing: the exception leaves main()
WebFetchFailed_Uncaught(calls) ==
  /\ pc' = "crashed"
  /\ rc' = 1
  /\ cur' = calls
  /\ UNCHANGED <<env, web_urls, apify_cfg, i, tries, all_lines, outFile,
                 outcomes, texts, produced>>

\* build_lines_from_web, lines 152-154: the fetch raised for good
WebFetchFailed(calls) == UrlDone(NoneT, calls, "failed")

\* simple_fetch, lines 80-86, one attempt under @retry; lines 150-151
SimpleFetch ==
  /\ pc = "get"
  /\ \E resp \in GetResps :
       LET calls == [cur EXCEPT !.get = @ + 1, !.getSt = St(resp)]
       IN IF St(resp) = "ok"
          THEN UrlDone(Some(extract_text_from_html(resp.html)),
                       [calls EXCEPT !.html = resp.html], "returned")
          ELSE IF tries + 1 < RETRY_ATTEMPTS
               THEN /\ tries' = tries + 1
                    /\ cur' = calls
                    /\ UNCHANGED <<env, pc, web_urls, apify_cfg, i, all_lines,
                                   outFile, rc, outcomes, texts, produced>>
               ELSE WebFetchFailed(calls)

\* main, lines 244-247
WebEnd ==
  /\ pc = "web_loop"
  /\ i > Len(web_urls)
  /\ pc' = IF Len(apify_cfg) > 0 /\ apify_enabled(apToken) THEN "apify_loop" ELSE "finish"
  /\ i' = 1
  /\ cur' = NoCalls
  /\ UNCHANGED <<env, web_urls, apify_cfg, tries, all_lines, outFile, rc,
                 outcomes, texts, produced>>

\* build_lines_from_apify, lines 216-220
ActorNext ==
  /\ pc = "apify_loop"
  /\ i <= Len(apify_cfg)
  /\ IF Len(apify_cfg[i].actor) = 0
     THEN /\ i' = i + 1
          /\ cur' = NoCalls
          /\ UNCHANGED <<pc, tries>>
     ELSE /\ pc' = "actor"
          /\ tries' = 0
          /\ cur' = [NoCalls EXCEPT !.kind = "actor"]
          /\ UNCHANGED i
  /\ UNCHANGED <<env, web_urls, apify_cfg, all_lines, outFile, rc, outcomes,
                 texts, produced>>

\* the actor's lines are appended and the loop moves on
ActorDone(new, calls, how) ==
  /\ all_lines' = all_lines \o new
  /\ cur' = [calls EXCEPT !.done = TRUE, !.from = Len(all_lines) + 1, !.n = Len(new)]
  /\ outcomes' = Append(outcomes, IF how = "failed" THEN "failed"
                                  ELSE IF Len(new) > 0 THEN "ok" ELSE "empty")
  /\ i' = i + 1
  /\ pc' = "apify_loop"
  /\ UNCHANGED <<env, web_urls, apify_cfg, tries, outFile, rc, texts, produced>>

\* build_lines_from_apify, lines 230-231: the call raised for good
ActorFailed(calls) == ActorDone(<<>>, calls, "failed")

\* apify_run_sync, lines 168-196, one attempt under @retry;
\* build_lines_from_apify, lines 222-231
ActorPost ==
  /\ pc = "actor"
  /\ IF ~apify_enabled(apToken)
     THEN ActorDone(<<>>, cur, "returned")
     ELSE \E resp \in ActorResps :
       LET calls == [cur EXCEPT !.actor = @ + 1, !.actorSt = St(resp)]
       IN IF St(resp) = "ok"
          THEN LET items == apify_items(resp)
                   r == ActorLines(apify_cfg[i].actor, items, 1)
               IN ActorDone(r.lines, [calls EXCEPT !.items = items], "returned")
          ELSE IF tries + 1 < RETRY_ATTEMPTS
               THEN /\ tries' = tries + 1
                    /\ cur' = calls
                    /\ UNCHANGED <<env, pc, web_urls, apify_cfg, i, all_lines,
                                   outFile, rc, outcomes, texts, produced>>
               ELSE ActorFailed(calls)

\* build_lines_from_apify, lines 216 and 232: the loop is over
ApifyEnd ==
  /\ pc = "apify_loop"
  /\ i > Len(apify_cfg)
  /\ pc' = "finish"
  /\ cur' = NoCalls
  /\ UNCHANGED <<env, web_urls, apify_cfg, i, tries, all_lines, outFile, rc,
                 outcomes, texts, produced>>

\* main, lines 249-254
Finish ==
  /\ pc = "finish"
  /\ LET out == Aggregate(all_lines) IN
     /\ all_lines' = out
     /\ outFile' = [written |-> TRUE, lines |-> out]
  /\ produced' = all_lines
  /\ rc' = 0
  /\ pc' = "done"
  /\ UNCHANGED <<env, web_urls, apify_cfg, i, tries, cur, outcomes, texts>>

Next ==
  \/ ReadSources
  \/ WebNext
  \/ ScrapePost
  \/ CrawlPost
  \/ SimpleFetch
  \/ WebEnd
  \/ ActorNext
  \/ ActorPost
  \/ ApifyEnd
  \/ Finish

Spec == Init /\ [][Next]_vars

\* ------------------------------------------- the aggregator run by itself
\* main, lines 249-250, applied to the list it has already produced
Rerun ==
  /\ pc = "done"
  /\ all_lines' = Aggregate(all_lines)
  /\ pc' = "again"
  /\ UNCHANGED <<env, web_urls, apify_cfg, i, tries, outFile, rc, cur,
                 outcomes, texts, produced>>

AggInit ==
  /\ cfgDoc = [kind |-> "absent", web |-> <<>>, apify |-> <<>>]
  /\ fcKey = FALSE
  /\ apToken = FALSE
  /\ pc = "finish"
  /\ web_urls = <<>>
  /\ apify_cfg = <<>>
  /\ i = 1
  /\ tries = 0
  /\ all_lines \in AggInputs
  /\ outFile = [written |-> FALSE, lines |-> <<>>]
  /\ rc = -1
  /\ cur = NoCalls
  /\ outcomes = <<>>
  /\ texts = <<>>
  /\ produced = <<>>

AggNext ==
  \/ Finish
  \/ Rerun

SpecAgg == AggInit /\ [][AggNext]_vars

\* ------------------------------------------------------------- properties
IsPrefix(a, b) == Len(a) <= Len(b) /\ SubSeq(b, 1, Len(a)) = a

RECURSIVE Concat(_)
Concat(ss) == IF Len(ss) = 0 THEN <<>> ELSE ss[1] \o Concat(Tail(ss))

Blank(x) == Len(Strip(x)) = 0

ConfigLoads == cfgDoc.kind \in {"absent", "empty", "map"}

\* the named actors of the config: the descriptors the actor loop calls
NamedActors == {n \in 1..Len(apify_cfg) : Len(apify_cfg[n].actor) > 0}

\* the chunk of a "SRC:WEB url | chunk" line
ChunkOf(line, url) ==
  SubSeq(line, Len(WEB_PREFIX) + Len(url) + Len(BAR) + 1, Len(line))

\* the lines the source that has just finished appended
LastLines == SubSeq(all_lines, cur.from, cur.from + cur.n - 1)

\* C1: with a config that loads, a failed fetch of one source never aborts
\* the run: main never crashes, no step before the aggregation drops a line
\* already collected, and when main returns every URL and (with the token
\* set) every named actor has been processed, the file is written and the
\* return code is 0.
C1_SoftFailure ==
  /\ [](cfgDoc.kind = "map" =>
          /\ pc # "crashed"
          /\ (pc = "done" =>
                /\ rc = 0
                /\ outFile.written
                /\ Len(texts) = Len(web_urls)
                /\ Len(outcomes) = Len(web_urls)
                     + (IF apToken THEN Cardinality(NamedActors) ELSE 0)))
  /\ [][pc # "finish" => IsPrefix(all_lines, all_lines')]_vars

\* a run in which the second URL failed for good after the first produced
\* lines, the actor after it still produced lines, and main returned 0
C1_Witness ==
  /\ pc = "done"
  /\ rc = 0
  /\ Len(outcomes) >= 3
  /\ outcomes[1] = "ok"
  /\ outcomes[2] = "failed"
  /\ outcomes[3] = "ok"
  /\ Len(outFile.lines) >= 2

\* C2: a scrape, crawl or actor POST that fails transiently (network error,
\* non-2xx) is sent again until it succeeds or 3 attempts were made, and is
\* never sent more than 3 times for one source.
C2_RetriedToThree ==
  /\ cur.scrape <= RETRY_ATTEMPTS
  /\ cur.crawl <= RETRY_ATTEMPTS
  /\ cur.actor <= RETRY_ATTEMPTS
  /\ (cur.kind = "web" /\ pc # "scrape" /\ cur.scrapeSt = "fail"
        => cur.scrape = RETRY_ATTEMPTS)
  /\ (cur.kind = "web" /\ pc \notin {"scrape", "crawl"} /\ cur.crawlSt = "fail"
        => cur.crawl = RETRY_ATTEMPTS)
  /\ (cur.kind = "actor" /\ cur.done /\ cur.actorSt = "fail"
        => cur.actor = RETRY_ATTEMPTS)

\* C3: without FIRECRAWL_API_KEY no request goes to /v1/scrape or /v1/crawl,
\* and each URL goes straight to the GET: its text is the text extracted
\* from the HTML the GET returned, or nothing after the GET failed 3 times.
C3_NoKeyNoScrape ==
  ~fcKey =>
    /\ pc \notin {"scrape", "crawl"}
    /\ cur.scrape = 0
    /\ cur.crawl = 0
    /\ (cur.kind = "web" /\ ~cur.done => pc = "get")
    /\ (cur.kind = "web" /\ cur.done =>
          /\ cur.get >= 1
          /\ IF cur.getSt = "ok"
             THEN /\ cur.text = Some(extract_text_from_html(cur.html))
                  /\ LastLines = WebLines(web_urls[i - 1], cur.text)
             ELSE /\ cur.get = RETRY_ATTEMPTS
                  /\ ~cur.text.some
                  /\ cur.n = 0)

\* a URL fetched by the GET alone, without the key, that produced lines
C3_Witness ==
  /\ ~fcKey
  /\ cur.kind = "web"
  /\ cur.done
  /\ cur.getSt = "ok"
  /\ cur.get = 1
  /\ cur.n >= 1

StartsWith(line, prefix) == IsPrefix(prefix, line)

\* C4: without APIFY_TOKEN the actor stage is skipped: no actor request is
\* sent, and a run whose config loads ends with return code 0 and a file
\* that holds no SRC:APIFY line, only the web lines (none without web URLs).
C4_NoTokenNoActor ==
  ~apToken =>
    /\ pc \notin {"apify_loop", "actor"}
    /\ cur.actor = 0
    /\ cur.kind # "actor"
    /\ (ConfigLoads => pc # "crashed")
    /\ (pc = "done" =>
          /\ rc = 0
          /\ outFile.written
          /\ Len(outcomes) = Len(web_urls)
          /\ \A n \in 1..Len(outFile.lines) :
               /\ ~StartsWith(outFile.lines[n], APIFY_PREFIX)
               /\ StartsWith(outFile.lines[n], WEB_PREFIX)
          /\ (Len(web_urls) = 0 => outFile.lines = <<>>))

\* a finished run without the token whose config names an actor and whose
\* file holds web lines
C4_Witness ==
  /\ ~apToken
  /\ pc = "done"
  /\ Cardinality(NamedActors) >= 1
  /\ Len(outFile.lines) >= 1

\* C5: an absent or unparseable sources.yaml loads as the empty
\* configuration, and the run ends with return code 0 and an empty file.
C5_EmptyConfig ==
  cfgDoc.kind \in {"absent", "unparseable"} =>
    /\ pc # "crashed"
    /\ (pc # "start" => web_urls = <<>> /\ apify_cfg = <<>>)
    /\ (pc = "done" => rc = 0 /\ outFile.written /\ outFile.lines = <<>>)

\* the chunks of the lines the URL that has just been fetched appended are
\* at most 800 long and concatenate to its normalized text
EmittedChunksRebuild ==
  cur.kind = "web" /\ cur.done /\ Truthy(cur.text) =>
    LET url == web_urls[i - 1]
        t == clean_text(cur.text.s)
        cs == [k \in 1..cur.n |-> ChunkOf(LastLines[k], url)]
    IN /\ texts[i - 1] = Some(t)
       /\ \A k \in 1..cur.n :
            /\ LastLines[k] = WebLine(url, cs[k])
            /\ Len(cs[k]) <= CHUNK
       /\ Concat(cs) = t

\* the lines of the file that belong to the n-th URL
PersistedOf(n) ==
  SelectSeq(outFile.lines,
            LAMBDA l : StartsWith(l, WEB_PREFIX \o web_urls[n] \o <<" ", "|">>))

PersistedChunks(n) ==
  LET ls == PersistedOf(n) IN [k \in 1..Len(ls) |-> ChunkOf(ls[k], web_urls[n])]

\* every chunk in the file is at most 800 long
PersistedChunksShort ==
  pc = "done" =>
    \A n \in 1..Len(web_urls) :
      \A k \in 1..Len(PersistedChunks(n)) : Len(PersistedChunks(n)[k]) <= CHUNK

\* the chunks in the file of a URL the config names once concatenate to
\* its normalized text
PersistedChunksRebuild ==
  pc = "done" =>
    \A n \in 1..Len(web_urls) :
      (texts[n].some /\ \A m \in 1..Len(web_urls) : m # n => web_urls[m] # web_urls[n])
        => Concat(PersistedChunks(n)) = texts[n].s

\* C6 as amended: for every URL fetched, the chunks emitted by the fetcher
\* are at most 800 long and concatenate in emission order to the URL's
\* normalized text; the chunks persisted to the file are at most 800 long.
C6_ChunksAmended == EmittedChunksRebuild /\ PersistedChunksShort

\* C6 as claimed: the same, and the chunks persisted to the file also
\* concatenate to the URL's normalized text.
C6_ChunksAsClaimed ==
  EmittedChunksRebuild /\ PersistedChunksShort /\ PersistedChunksRebuild

\* a URL whose text was emitted as three chunks
C6_Witness ==
  /\ cur.kind = "web"
  /\ cur.done
  /\ cur.n = 3
  /\ Len(texts[i - 1].s) = 2 * CHUNK + 2

\* the positions of the lines that survive the aggregator: not blank, and
\* not equal after normalization to an earlier line
Survivors(ls) ==
  {q \in 1..Len(ls) :
     /\ ~Blank(ls[q])
     /\ \A m \in 1..(q - 1) : Blank(ls[m]) \/ clean_text(ls[m]) # clean_text(ls[q])}

\* C7: the output holds the surviving lines in the order in which they were
\* emitted, each duplicated line at the place of its first occurrence.
C7_OrderPreserved ==
  pc = "done" =>
    LET S == Survivors(produced) IN
    /\ Len(all_lines) = Cardinality(S)
    /\ \A q \in S :
         all_lines[1 + Cardinality({m \in S : m < q})] = clean_text(produced[q])

\* an aggregation in which the third line repeated the first in another
\* spelling and the line between them survived
C7_Witness ==
  /\ pc = "done"
  /\ Len(produced) = 3
  /\ produced[1] # produced[3]
  /\ Len(all_lines) = 2
  /\ all_lines[1] = clean_text(produced[3])
  /\ all_lines[2] = clean_text(produced[2])

\* C8: aggregating the aggregator's result again yields the same list.
C8_Idempotent == pc = "again" => all_lines = outFile.lines

\* a second aggregation of a list whose first aggregation dropped lines
\* and normalized one
C8_Witness ==
  /\ pc = "again"
  /\ Len(produced) = 3
  /\ Len(all_lines) = 2
  /\ all_lines[1] # produced[1]

RECURSIVE FlatItemLines(_, _)
FlatItemLines(actor, items) ==
  IF Len(items) = 0 THEN <<>>
  ELSE ItemLines(actor, items[1]) \o FlatItemLines(actor, Tail(items))

\* C9: a malformed record of an actor's response is dropped and every
\* well-formed record of that response, before or after it, contributes
\* its lines.
C9_MalformedRecordDropped ==
  cur.kind = "actor" /\ cur.done /\ cur.actorSt = "ok" =>
    LastLines = FlatItemLines(apify_cfg[i - 1].actor,
                              SelectSeq(cur.items, LAMBDA it : it.t = "dict"))

\* C10: the strategies run in the order scrape, crawl, GET, a later one only
\* after the earlier ones yielded no non-empty text, none after one yielded
\* it, and a URL yields no lines only after every applicable strategy was
\* tried and failed.
C10_StrategyOrder ==
  cur.kind = "web" =>
    /\ (cur.crawl > 0 => cur.scrape > 0 /\ ~cur.scrapeY)
    /\ (cur.get > 0 =>
          IF fcKey
          THEN cur.scrape > 0 /\ ~cur.scrapeY /\ cur.crawl > 0 /\ ~cur.crawlY
          ELSE cur.scrape = 0 /\ cur.crawl = 0)
    /\ (cur.scrapeY => cur.crawl = 0 /\ cur.get = 0)
    /\ (cur.crawlY => cur.get = 0)
    /\ (cur.done /\ cur.n = 0 =>
          /\ cur.get > 0
          /\ (fcKey => cur.scrape > 0 /\ cur.crawl > 0))
====
